---- MODULE Spec2Model ----
(***************************************************************************)
(* A model of the Maven caching proxy worker of src/src/index.ts: the      *)
(* fetch handler (validation, cache lookup, authenticated upstream fetch,  *)
(* background cache store), the two authorizers and stripBody.             *)
(*                                                                         *)
(* Strings the code inspects character by character (paths, patterns,      *)
(* extension lists) are sequences of one-character strings.  Bodies are    *)
(* sequences of chunks, the null body being the empty sequence.  Headers   *)
(* are functions from the names present to their values.                   *)
(***************************************************************************)
EXTENDS Integers, Sequences, FiniteSets, TLC

(***************************************************************************)
(* The bound of the model: the number of handler invocations of one        *)
(* behaviour.                                                              *)
(***************************************************************************)
MaxReq == 2

(***************************************************************************)
(* JavaScript string primitives, as the code uses them.                    *)
(***************************************************************************)
\* An optional configuration value: undefined, or a string.
Undefined == [def |-> FALSE, val |-> <<>>]
Str(s) == [def |-> TRUE, val |-> s]

\* JavaScript truthiness of an optional string: defined and not empty.
Truthy(v) == v.def /\ v.val # <<>>

\* String.prototype.startsWith / endsWith.
StartsWith(s, p) ==
    /\ Len(p) <= Len(s)
    /\ SubSeq(s, 1, Len(p)) = p

EndsWith(s, suf) ==
    /\ Len(suf) <= Len(s)
    /\ SubSeq(s, Len(s) - Len(suf) + 1, Len(s)) = suf

\* String.prototype.slice(1).
Slice1(s) == SubSeq(s, 2, Len(s))

\* String.prototype.split(','): always at least one piece; '' gives [''].
RECURSIVE Split(_)
Split(s) ==
    IF \E i \in 1..Len(s) : s[i] = ","
    THEN LET i == CHOOSE k \in 1..Len(s) :
                     /\ s[k] = ","
                     /\ \A j \in 1..(k - 1) : s[j] # ","
         IN  <<SubSeq(s, 1, i - 1)>> \o Split(SubSeq(s, i + 1, Len(s)))
    ELSE <<s>>

\* String.prototype.trim(): white space removed at both ends.
RECURSIVE TrimStart(_)
TrimStart(s) ==
    IF s # <<>> /\ s[1] = " " THEN TrimStart(Tail(s)) ELSE s

RECURSIVE TrimEnd(_)
TrimEnd(s) ==
    IF s # <<>> /\ s[Len(s)] = " " THEN TrimEnd(SubSeq(s, 1, Len(s) - 1)) ELSE s

Trim(s) == TrimEnd(TrimStart(s))

\* The string whose characters are cs (a template literal's interpolation).
RECURSIVE Join(_)
Join(cs) == IF cs = <<>> THEN "" ELSE Head(cs) \o Join(Tail(cs))

(***************************************************************************)
(* new RegExp(source) and RegExp.prototype.test, for the pattern fragment  *)
(* the configurations of the model use: literal characters, '.', a leading *)
(* '^', a trailing '$', and an unterminated group '(' (a SyntaxError).     *)
(***************************************************************************)
RegExpSyntaxError(src) ==
    \E i \in 1..Len(src) :
        /\ src[i] = "("
        /\ \A j \in (i + 1)..Len(src) : src[j] # ")"

RegExpTest(src, s) ==
    LET anchS == Len(src) > 0 /\ src[1] = "^"
        from  == IF anchS THEN 2 ELSE 1
        anchE == Len(src) >= from /\ src[Len(src)] = "$"
        to    == IF anchE THEN Len(src) - 1 ELSE Len(src)
        core  == SubSeq(src, from, to)
    IN  \E i \in 1..(Len(s) - Len(core) + 1) :
            /\ anchS => i = 1
            /\ anchE => i + Len(core) - 1 = Len(s)
            /\ \A j \in 1..Len(core) : core[j] = "." \/ core[j] = s[i + j - 1]

(***************************************************************************)
(* The authorizers.  A result is "true", "false", or the name of the       *)
(* exception the call throws.                                              *)
(***************************************************************************)
\* A variant of isAllowedPath: the patterns compiled as split, untrimmed.
isAllowedPathUntrimmed(env, url) ==
    IF Truthy(env.ALLOWED_PATHS)
    THEN LET allowedPackages == Split(env.ALLOWED_PATHS.val)
         IN  IF \E i \in 1..Len(allowedPackages) : RegExpSyntaxError(allowedPackages[i])
             THEN "SyntaxError"
             ELSE IF \E i \in 1..Len(allowedPackages) :
                         RegExpTest(allowedPackages[i], url)
             THEN "true"
             ELSE "false"
    ELSE "true"

\* Every pattern is compiled (lines 123-125) before any is tested.
isAllowedPath(env, url) ==
    IF Truthy(env.ALLOWED_PATHS)
    THEN LET split == Split(env.ALLOWED_PATHS.val)
             allowedPackages == [i \in 1..Len(split) |-> Trim(split[i])]
         IN  IF \E i \in 1..Len(split) : RegExpSyntaxError(allowedPackages[i])
             THEN "SyntaxError"
             ELSE IF Len(allowedPackages) = 0
             THEN "true"
             ELSE IF \E i \in 1..Len(allowedPackages) :
                         RegExpTest(allowedPackages[i], url)
             THEN "true"
             ELSE "false"
    ELSE "true"

\* A variant of isAllowedExtension: the suffixes trimmed before the match.
isAllowedExtensionTrimmed(env, path) ==
    IF ~env.ALLOWED_EXTENSIONS.def
    THEN "TypeError"
    ELSE LET allowedExtensions == Split(env.ALLOWED_EXTENSIONS.val)
         IN  IF \E i \in 1..Len(allowedExtensions) :
                     EndsWith(path, Trim(allowedExtensions[i]))
             THEN "true"
             ELSE "false"

\* undefined.split throws a TypeError.
isAllowedExtension(env, path) ==
    IF ~env.ALLOWED_EXTENSIONS.def
    THEN "TypeError"
    ELSE LET allowedExtensions == Split(env.ALLOWED_EXTENSIONS.val)
         IN  IF \E i \in 1..Len(allowedExtensions) :
                     EndsWith(path, allowedExtensions[i])
             THEN "true"
             ELSE "false"

(***************************************************************************)
(* Configurations (env) and inbound requests.                              *)
(***************************************************************************)
Token == <<"g", "h", "p">>
ExtJarPom == <<".", "j", "a", "r", ",", ".", "p", "o", "m">>
ExtJar == <<".", "j", "a", "r">>
\* '^c/, lib': two patterns, the second with white space to trim.
PatCLib == <<"^", "c", "/", ",", " ", "l", "i", "b">>
\* '^c/,(': the second pattern does not compile.
PatMalformed == <<"^", "c", "/", ",", "(">>

MkEnv(token, paths, exts) ==
    [GITHUB_OWNER |-> "owner", GITHUB_REPO |-> "repo", GITHUB_TOKEN |-> token,
     ALLOWED_PATHS |-> paths, ALLOWED_EXTENSIONS |-> exts]

\* No credential, no path restriction.
EnvNoToken == MkEnv(Undefined, Undefined, Str(ExtJarPom))
\* Every value the empty string.
EnvBlank == MkEnv(Str(<<>>), Str(<<>>), Str(<<>>))
\* A credential, paths under c/ or holding "lib", the extension .jar.
EnvRestricted == MkEnv(Str(Token), Str(PatCLib), Str(ExtJar))
\* A pattern that does not compile.
EnvMalformed == MkEnv(Str(Token), Str(PatMalformed), Str(ExtJarPom))
\* ALLOWED_EXTENSIONS not set.
EnvNoExts == MkEnv(Str(Token), Undefined, Undefined)

Envs == {EnvNoToken, EnvBlank, EnvRestricted, EnvMalformed, EnvNoExts}

\* url.pathname of the inbound requests: /c/a.jar, /o/b.pom, /c/a.jarx.
PathJar == <<"/", "c", "/", "a", ".", "j", "a", "r">>
PathPom == <<"/", "o", "/", "b", ".", "p", "o", "m">>
PathJarx == <<"/", "c", "/", "a", ".", "j", "a", "r", "x">>
Pathnames == {PathJar, PathPom, PathJarx}

Methods == {"GET", "HEAD", "OPTIONS", "POST"}

Requests == 1..MaxReq

(***************************************************************************)
(* Responses and headers.                                                  *)
(***************************************************************************)
ACAO == "Access-Control-Allow-Origin"
ACAM == "Access-Control-Allow-Methods"
ACAH == "Access-Control-Allow-Headers"
CacheControl == "Cache-Control"

NoHeaders == [n \in {} |-> ""]
NullBody == <<>>

\* Headers.prototype.set.
HeadersSet(h, name, value) ==
    [n \in DOMAIN h \cup {name} |-> IF n = name THEN value ELSE h[n]]

HeaderIs(h, name, value) == name \in DOMAIN h /\ h[name] = value

\* new Response(body, {status, statusText, headers}); status defaults to 200.
Response(body, status, statusText, headers) ==
    [status |-> status, statusText |-> statusText, headers |-> headers, body |-> body]

\* The slot of a request that has returned nothing yet.
NoResponse == Response(NullBody, 0, "", NoHeaders)

\* A variant of Clone: the body stream already consumed, nothing left to copy.
CloneConsumed(response) ==
    Response(NullBody, response.status, response.statusText, response.headers)

\* Response.prototype.clone: the same status, headers and body.
Clone(response) == response

stripBody(response) ==
    Response(NullBody, response.status, response.statusText, response.headers)

\* Response.prototype.ok.
Ok(response) == response.status >= 200 /\ response.status <= 299

\* const cacheTtl = 60 * 5.
cacheTtl == 60 * 5

\* `public, max-age=${cacheTtl}`.
MaxAge == "public, max-age=" \o ToString(cacheTtl)

(***************************************************************************)
(* The upstream registry: what one authenticated GET of a URL can be       *)
(* answered with: the artifact, with headers of the registry's own; a      *)
(* non-2xx reply; or a network-level failure (fetch throws).  The registry *)
(* may answer the same URL differently from call to call.                  *)
(***************************************************************************)
UpstreamPlain == "Content-Type" :> "text/plain"
UpstreamOwn ==
    ("Content-Type" :> "application/java-archive")
        @@ (CacheControl :> "private, no-store")
        @@ (ACAO :> "https://github.com")

UpstreamOutcomes(url) ==
    { [threw |-> FALSE,
       response |-> Response(<<"BYTES of ", url>>, 200, "OK", UpstreamOwn)],
      [threw |-> FALSE,
       response |-> Response(<<"unavailable">>, 503, "Service Unavailable", UpstreamPlain)],
      [threw |-> TRUE, response |-> NoResponse] }

(***************************************************************************)
(* The pieces of the fetch handler.                                        *)
(***************************************************************************)
githubMavenUrl(env) ==
    "https://maven.pkg.github.com/" \o env.GITHUB_OWNER \o "/" \o env.GITHUB_REPO \o "/"

\* Lines 6-11: the pathname without its leading slash.
StripLeadingSlash(pathname) ==
    IF StartsWith(pathname, <<"/">>) THEN Slice1(pathname) ELSE pathname

targetUrl(env, pathname) == githubMavenUrl(env) \o Join(StripLeadingSlash(pathname))

\* A variant of cacheKey: the key built with the inbound method.
cacheKeyPerMethod(env, method, pathname) ==
    [url |-> targetUrl(env, pathname), method |-> method]

\* new Request(targetUrl, { method: 'GET' }): the key ignores the inbound method.
cacheKey(env, method, pathname) == [url |-> targetUrl(env, pathname), method |-> "GET"]

\* The outbound request of lines 64-72 (the inbound requests carry no Accept).
newRequest(env, pathname) ==
    [url |-> targetUrl(env, pathname),
     method |-> "GET",
     headers |-> ("Authorization" :> "Bearer " \o Join(env.GITHUB_TOKEN.val))
                    @@ ("Accept" :> "application/octet-stream")
                    @@ ("User-Agent" :> "Cloudflare-Worker-Maven-Proxy")
                    @@ (ACAO :> "*")]

BadPathResponse ==
    Response(<<"Invalid request (bad path)">>, 404, "", ACAO :> "*")
BadExtensionResponse ==
    Response(<<"Invalid request (bad extension)">>, 404, "", ACAO :> "*")
\* A variant of OptionsResponse: the allow-origin header alone.
OptionsResponseOriginOnly == Response(NullBody, 200, "", ACAO :> "*")

OptionsResponse ==
    Response(NullBody, 200, "",
             (ACAO :> "*") @@ (ACAM :> "GET, OPTIONS") @@ (ACAH :> "Accept, HEAD"))
MethodNotAllowedResponse ==
    Response(<<"Method not allowed">>, 405, "", ACAO :> "*")
InternalErrorResponse ==
    Response(<<"Internal server error">>, 500, "", NoHeaders)

\* A variant of FailResponse: every upstream failure reported as 500.
FailResponseAs500(response) ==
    Response(<<"Failed to fetch from GitHub Packages: ", response.statusText>>,
             500, "",
             (ACAO :> "*") @@ (CacheControl :> MaxAge))

\* Lines 80-86: the response mirroring a non-2xx upstream reply.
FailResponse(response) ==
    Response(<<"Failed to fetch from GitHub Packages: ", response.statusText>>,
             response.status, "",
             (ACAO :> "*") @@ (CacheControl :> MaxAge))

\* A variant of CacheResponse: Cache-Control overwritten, the upstream's
\* Access-Control-Allow-Origin kept.
CacheResponseKeepOrigin(response) ==
    Response(response.body, response.status, response.statusText,
             HeadersSet(response.headers, CacheControl, MaxAge))

\* A variant of CacheResponse: Access-Control-Allow-Origin overwritten, the
\* upstream's Cache-Control kept.
CacheResponseKeepCacheControl(response) ==
    Response(response.body, response.status, response.statusText,
             HeadersSet(response.headers, ACAO, "*"))

\* Lines 91-98: the upstream reply with the two headers overwritten.
CacheResponse(response) ==
    Response(response.body, response.status, response.statusText,
             HeadersSet(HeadersSet(response.headers, CacheControl, MaxAge), ACAO, "*"))

\* A variant of ShapeHit: the body stripped for every method.
ShapeHitStripped(method, cachedResponse) == stripBody(cachedResponse)

\* Line 55 and line 103: the response shaped for the inbound method.
ShapeHit(method, cachedResponse) ==
    IF method = "HEAD" THEN stripBody(cachedResponse) ELSE Clone(cachedResponse)

ShapeFresh(method, cacheResponse) ==
    IF method = "HEAD" THEN stripBody(cacheResponse) ELSE cacheResponse

\* A variant of Validate: a method other than OPTIONS is let through.
ValidateAnyMethod(env, method, pathname) ==
    LET path == StripLeadingSlash(pathname)
        okPath == isAllowedPath(env, path)
        okExt == isAllowedExtension(env, path)
    IN  IF okPath \notin {"true", "false"} THEN [via |-> "thrown", response |-> NoResponse]
        ELSE IF okPath = "false" THEN [via |-> "bad path", response |-> BadPathResponse]
        ELSE IF okExt \notin {"true", "false"} THEN [via |-> "thrown", response |-> NoResponse]
        ELSE IF okExt = "false"
        THEN [via |-> "bad extension", response |-> BadExtensionResponse]
        ELSE IF method = "OPTIONS" THEN [via |-> "options", response |-> OptionsResponse]
        ELSE [via |-> "continue", response |-> NoResponse]

\* A variant of Validate: the extension authorizer's verdict is not looked at.
ValidateNoExtensionCheck(env, method, pathname) ==
    LET path == StripLeadingSlash(pathname)
        okPath == isAllowedPath(env, path)
    IN  IF okPath \notin {"true", "false"} THEN [via |-> "thrown", response |-> NoResponse]
        ELSE IF okPath = "false" THEN [via |-> "bad path", response |-> BadPathResponse]
        ELSE IF method = "OPTIONS" THEN [via |-> "options", response |-> OptionsResponse]
        ELSE IF method # "GET" /\ method # "HEAD"
        THEN [via |-> "bad method", response |-> MethodNotAllowedResponse]
        ELSE [via |-> "continue", response |-> NoResponse]

\* A variant of Validate: the method looked at before the path.
ValidateMethodFirst(env, method, pathname) ==
    LET path == StripLeadingSlash(pathname)
        okPath == isAllowedPath(env, path)
        okExt == isAllowedExtension(env, path)
    IN  IF method = "OPTIONS" THEN [via |-> "options", response |-> OptionsResponse]
        ELSE IF method # "GET" /\ method # "HEAD"
        THEN [via |-> "bad method", response |-> MethodNotAllowedResponse]
        ELSE IF okPath \notin {"true", "false"} THEN [via |-> "thrown", response |-> NoResponse]
        ELSE IF okPath = "false" THEN [via |-> "bad path", response |-> BadPathResponse]
        ELSE IF okExt \notin {"true", "false"} THEN [via |-> "thrown", response |-> NoResponse]
        ELSE IF okExt = "false"
        THEN [via |-> "bad extension", response |-> BadExtensionResponse]
        ELSE [via |-> "continue", response |-> NoResponse]

\* Lines 12-45: what validation decides, before any cache or upstream access.
Validate(env, method, pathname) ==
    LET path == StripLeadingSlash(pathname)
        okPath == isAllowedPath(env, path)
        okExt == isAllowedExtension(env, path)
    IN  IF okPath \notin {"true", "false"} THEN [via |-> "thrown", response |-> NoResponse]
        ELSE IF okPath = "false" THEN [via |-> "bad path", response |-> BadPathResponse]
        ELSE IF okExt \notin {"true", "false"} THEN [via |-> "thrown", response |-> NoResponse]
        ELSE IF okExt = "false"
        THEN [via |-> "bad extension", response |-> BadExtensionResponse]
        ELSE IF method = "OPTIONS" THEN [via |-> "options", response |-> OptionsResponse]
        ELSE IF method # "GET" /\ method # "HEAD"
        THEN [via |-> "bad method", response |-> MethodNotAllowedResponse]
        ELSE [via |-> "continue", response |-> NoResponse]

(***************************************************************************)
(* The shared cache (caches.default): the responses stored, by key.  Every *)
(* response the handler stores carries max-age=cacheTtl; the cache drops   *)
(* an entry when that time has passed (TtlElapses below).                  *)
(***************************************************************************)
\* cache.match(key): the stored response, or NoResponse (undefined).
CacheMatch(c, key) == IF key \in DOMAIN c THEN c[key] ELSE NoResponse

\* A variant of CachePut: an entry already present is kept.
CachePutIfAbsent(c, key, response) ==
    [k \in DOMAIN c \cup {key} |-> IF k \in DOMAIN c THEN c[k] ELSE response]

\* cache.put(key, response) completing: the last store for a key wins.
CachePut(c, key, response) ==
    [k \in DOMAIN c \cup {key} |-> IF k = key THEN response ELSE c[k]]

(***************************************************************************)
(* The handler after each of its two awaits, as functions of what the      *)
(* await produced.  A result names the return statement taken (via), the   *)
(* response returned, and what was issued on the way.                      *)
(***************************************************************************)
\* A variant of OnMatch: the outbound request issued without looking at the
\* credential.
OnMatchNoTokenCheck(env, method, pathname, cachedResponse) ==
    IF cachedResponse # NoResponse
    THEN [via |-> "hit", response |-> ShapeHit(method, cachedResponse), calls |-> {}]
    ELSE [via |-> "fetching", response |-> NoResponse,
          calls |-> {newRequest(env, pathname)}]

\* A variant of OnMatch: the credential looked at before the cached entry.
OnMatchTokenFirst(env, method, pathname, cachedResponse) ==
    IF ~Truthy(env.GITHUB_TOKEN)
    THEN [via |-> "no token", response |-> InternalErrorResponse, calls |-> {}]
    ELSE IF cachedResponse # NoResponse
    THEN [via |-> "hit", response |-> ShapeHit(method, cachedResponse), calls |-> {}]
    ELSE [via |-> "fetching", response |-> NoResponse,
          calls |-> {newRequest(env, pathname)}]

\* Lines 54-75, with cachedResponse the result of cache.match: a hit returns
\* the entry shaped for the method; a miss returns 500 without a credential
\* and otherwise issues the outbound request (calls).
OnMatch(env, method, pathname, cachedResponse) ==
    IF cachedResponse # NoResponse
    THEN [via |-> "hit", response |-> ShapeHit(method, cachedResponse), calls |-> {}]
    ELSE IF ~Truthy(env.GITHUB_TOKEN)
    THEN [via |-> "no token", response |-> InternalErrorResponse, calls |-> {}]
    ELSE [via |-> "fetching", response |-> NoResponse,
          calls |-> {newRequest(env, pathname)}]

\* A variant of OnReply: the 500 of a thrown fetch is stored like any failure.
OnReplyCachesError(env, method, pathname, out) ==
    LET key == cacheKey(env, method, pathname)
    IN  IF out.threw
        THEN [via |-> "network error", response |-> InternalErrorResponse,
              puts |-> {[key |-> key, response |-> Clone(InternalErrorResponse)]}]
        ELSE IF ~Ok(out.response)
        THEN LET fail == FailResponse(out.response)
             IN  [via |-> "upstream failure", response |-> fail,
                  puts |-> {[key |-> key, response |-> Clone(fail)]}]
        ELSE LET cacheResponse == CacheResponse(out.response)
             IN  [via |-> "fresh", response |-> ShapeFresh(method, cacheResponse),
                  puts |-> {[key |-> key, response |-> Clone(cacheResponse)]}]

\* A variant of OnReply: the response stored after a 2xx reply is the one
\* shaped for the inbound method.
OnReplyStoresShaped(env, method, pathname, out) ==
    LET key == cacheKey(env, method, pathname)
    IN  IF out.threw
        THEN [via |-> "network error", response |-> InternalErrorResponse, puts |-> {}]
        ELSE IF ~Ok(out.response)
        THEN LET fail == FailResponse(out.response)
             IN  [via |-> "upstream failure", response |-> fail,
                  puts |-> {[key |-> key, response |-> Clone(fail)]}]
        ELSE LET cacheResponse == CacheResponse(out.response)
             IN  [via |-> "fresh", response |-> ShapeFresh(method, cacheResponse),
                  puts |-> {[key |-> key,
                             response |-> Clone(ShapeFresh(method, cacheResponse))]}]

\* A variant of OnReply: a non-2xx reply is mirrored and not stored.
OnReplyFailureNotStored(env, method, pathname, out) ==
    LET key == cacheKey(env, method, pathname)
    IN  IF out.threw
        THEN [via |-> "network error", response |-> InternalErrorResponse, puts |-> {}]
        ELSE IF ~Ok(out.response)
        THEN [via |-> "upstream failure", response |-> FailResponse(out.response),
              puts |-> {}]
        ELSE LET cacheResponse == CacheResponse(out.response)
             IN  [via |-> "fresh", response |-> ShapeFresh(method, cacheResponse),
                  puts |-> {[key |-> key, response |-> Clone(cacheResponse)]}]

\* Lines 75-107, with out the settled upstream fetch: a thrown fetch returns
\* 500; a non-2xx reply is mirrored, a 2xx reply re-headed and shaped for the
\* method, and in both cases a cache.put is handed to ctx.waitUntil (puts).
OnReply(env, method, pathname, out) ==
    LET key == cacheKey(env, method, pathname)
    IN  IF out.threw
        THEN [via |-> "network error", response |-> InternalErrorResponse, puts |-> {}]
        ELSE IF ~Ok(out.response)
        THEN LET fail == FailResponse(out.response)
             IN  [via |-> "upstream failure", response |-> fail,
                  puts |-> {[key |-> key, response |-> Clone(fail)]}]
        ELSE LET cacheResponse == CacheResponse(out.response)
             IN  [via |-> "fresh", response |-> ShapeFresh(method, cacheResponse),
                  puts |-> {[key |-> key, response |-> Clone(cacheResponse)]}]

(***************************************************************************)
(* State.                                                                  *)
(***************************************************************************)
VARIABLES
    env,            \* the configuration, fixed for a behaviour
    cache,          \* caches.default: key -> response
    pending,        \* cache.put promises handed to ctx.waitUntil, not yet complete
    req,            \* per invocation: its position, its inbound request, its history
    resp,           \* per invocation: the response the handler returned
    upstreamCalls,  \* history: the outbound requests issued, each with its issuer
    stores,         \* history: every cache.put ever handed to ctx.waitUntil
    lastStore,      \* history: per target URL, whose store completed last (within the TTL)
    sinceReply,     \* history: who returned an upstream answer less than cacheTtl ago
    probe           \* the last direct call of an authorizer: its argument and result

vars == <<env, cache, pending, req, resp, upstreamCalls, stores, lastStore, sinceReply,
         probe>>

\* pc: "idle" (not yet invoked), "match" (awaiting cache.match), "fetch"
\* (awaiting the upstream fetch), "done" (a response returned), "thrown" (an
\* exception left the handler).  The other fields record what happened: via is
\* the return statement taken; reply the upstream's answer; prior the
\* invocations that had ended when this one began; and, as of the moment
\* cache.match resolved, recent the invocations that had returned an upstream
\* answer less than cacheTtl seconds before, and sawStore the invocation whose
\* store for the URL had completed last, less than cacheTtl seconds before (0
\* for none).
IdleReq ==
    [pc |-> "idle", method |-> "GET", pathname |-> <<>>, via |-> "none",
     prior |-> {}, recent |-> {}, sawStore |-> 0, reply |-> NoResponse]

Ended(r) == req[r].pc \in {"done", "thrown"}

\* No authorizer called directly.
NoProbe == [fn |-> "none", path |-> <<>>, result |-> "none"]

Init ==
    /\ env \in Envs
    /\ cache = [k \in {} |-> NoResponse]
    /\ pending = {}
    /\ req = [r \in Requests |-> IdleReq]
    /\ resp = [r \in Requests |-> NoResponse]
    /\ upstreamCalls = {}
    /\ stores = {}
    /\ lastStore = [u \in {} |-> 0]
    /\ sinceReply = {}
    /\ probe = NoProbe

LastStoreOf(url) == IF url \in DOMAIN lastStore THEN lastStore[url] ELSE 0

(***************************************************************************)
(* Lines 2-53: the handler is invoked; it validates the request and either *)
(* returns, throws, or issues the cache lookup.                            *)
(***************************************************************************)
Receive(r, method, pathname) ==
    /\ req[r].pc = "idle"
    /\ \A q \in Requests : q < r => req[q].pc # "idle"
    /\ LET v == Validate(env, method, pathname)
       IN  /\ req' = [req EXCEPT ![r] =
                        [@ EXCEPT !.method = method,
                                  !.pathname = pathname,
                                  !.prior = {q \in Requests : Ended(q)},
                                  !.pc = CASE v.via = "thrown" -> "thrown"
                                           [] v.via = "continue" -> "match"
                                           [] OTHER -> "done",
                                  !.via = v.via]]
           /\ resp' = [resp EXCEPT ![r] = v.response]
    /\ UNCHANGED <<env, cache, pending, upstreamCalls, stores, lastStore, sinceReply, probe>>

(***************************************************************************)
(* Lines 53-75: cache.match resolves and the handler runs to its next      *)
(* await or return.                                                        *)
(***************************************************************************)
Lookup(r) ==
    /\ req[r].pc = "match"
    /\ LET key == cacheKey(env, req[r].method, req[r].pathname)
           m == OnMatch(env, req[r].method, req[r].pathname, CacheMatch(cache, key))
       IN  /\ req' = [req EXCEPT ![r] =
                        [@ EXCEPT !.recent = sinceReply,
                                  !.sawStore = LastStoreOf(targetUrl(env, req[r].pathname)),
                                  !.pc = IF m.via = "fetching" THEN "fetch" ELSE "done",
                                  !.via = m.via]]
           /\ resp' = [resp EXCEPT ![r] = m.response]
           /\ upstreamCalls' = upstreamCalls \cup
                                  {[by |-> r, request |-> c] : c \in m.calls}
    /\ UNCHANGED <<env, cache, pending, stores, lastStore, sinceReply, probe>>

(***************************************************************************)
(* Lines 75-107: the upstream fetch settles and the handler returns; the   *)
(* cache.put it handed to ctx.waitUntil is still to complete.              *)
(***************************************************************************)
UpstreamReply(r, out) ==
    /\ req[r].pc = "fetch"
    /\ LET o == OnReply(env, req[r].method, req[r].pathname, out)
           puts == {[by |-> r, key |-> p.key, response |-> p.response] : p \in o.puts}
       IN  /\ req' = [req EXCEPT ![r] =
                        [@ EXCEPT !.pc = "done", !.via = o.via, !.reply = out.response]]
           /\ resp' = [resp EXCEPT ![r] = o.response]
           /\ pending' = pending \cup puts
           /\ stores' = stores \cup puts
           /\ sinceReply' = IF out.threw THEN sinceReply ELSE sinceReply \cup {r}
    /\ UNCHANGED <<env, cache, upstreamCalls, lastStore, probe>>

(***************************************************************************)
(* Lines 87 and 100: a cache.put handed to ctx.waitUntil completes, after  *)
(* its handler has returned.                                               *)
(***************************************************************************)
StoreComplete(s) ==
    /\ s \in pending
    /\ cache' = CachePut(cache, s.key, s.response)
    /\ pending' = pending \ {s}
    /\ lastStore' = [u \in DOMAIN lastStore \cup {s.key.url} |->
                        IF u = s.key.url THEN s.by ELSE lastStore[u]]
    /\ UNCHANGED <<env, req, resp, upstreamCalls, stores, sinceReply, probe>>

(***************************************************************************)
(* cacheTtl seconds pass: the max-age of line 84 and line 97 runs out for  *)
(* every entry in the cache, and the cache drops them.  The passing of     *)
(* time is followed while a lookup is still to come and there is something *)
(* to age.                                                                 *)
(***************************************************************************)
TtlElapses ==
    /\ \E r \in Requests : req[r].pc \in {"idle", "match"}
    /\ DOMAIN cache # {} \/ sinceReply # {}
    /\ cache' = [k \in {} |-> NoResponse]
    /\ lastStore' = [u \in {} |-> 0]
    /\ sinceReply' = {}
    /\ UNCHANGED <<env, pending, req, resp, upstreamCalls, stores, probe>>

Upstream(r) ==
    \E out \in UpstreamOutcomes(targetUrl(env, req[r].pathname)) : UpstreamReply(r, out)

Complete == \E s \in pending : StoreComplete(s)

Next ==
    \/ \E r \in Requests, method \in Methods, pathname \in Pathnames :
            Receive(r, method, pathname)
    \/ \E r \in Requests : Lookup(r)
    \/ \E r \in Requests : Upstream(r)
    \/ Complete
    \/ TtlElapses

Spec == Init /\ [][Next]_vars

(***************************************************************************)
(* The runtime keeps the worker alive until every promise handed to        *)
(* ctx.waitUntil has settled: a pending cache.put is not postponed for     *)
(* ever.                                                                   *)
(***************************************************************************)
FairSpec == Spec /\ WF_vars(Complete)

(***************************************************************************)
(* The worker started over a cache that already holds an entry: the cache  *)
(* outlives a deployment, so an entry stored while a credential was        *)
(* configured can be found by a worker that has none.                      *)
(***************************************************************************)
\* What an earlier deployment stored for the URL: a re-headed 2xx reply or a
\* mirrored failure (lines 87 and 100).
EarlierEntries(url) ==
    {IF Ok(out.response) THEN Clone(CacheResponse(out.response))
                         ELSE Clone(FailResponse(out.response)) :
        out \in {o \in UpstreamOutcomes(url) : ~o.threw}}

WarmInit ==
    /\ env \in {EnvNoToken, EnvRestricted}
    /\ \E entry \in EarlierEntries(targetUrl(env, PathJar)) :
            cache = CachePut([k \in {} |-> NoResponse],
                             cacheKey(env, "GET", PathJar), entry)
    /\ pending = {}
    /\ req = [r \in Requests |-> IdleReq]
    /\ resp = [r \in Requests |-> NoResponse]
    /\ upstreamCalls = {}
    /\ stores = {}
    /\ lastStore = [u \in {} |-> 0]
    /\ sinceReply = {}
    /\ probe = NoProbe

WarmSpec == WarmInit /\ [][Next]_vars

(***************************************************************************)
(* The two authorizers called on their own, over a wider choice of         *)
(* configurations and paths than the handler is run with.                  *)
(***************************************************************************)
\* Values of ALLOWED_PATHS: not set; ''; ' '; ','; '^c/, lib'; '^c/,(';
\* 'lib$'; '^c/,'; 'a.j'; '('.
AllowedPathsValues ==
    {Undefined, Str(<<>>), Str(<<" ">>), Str(<<",">>), Str(PatCLib), Str(PatMalformed),
     Str(<<"l", "i", "b", "$">>), Str(<<"^", "c", "/", ",">>), Str(<<"a", ".", "j">>),
     Str(<<"(">>)}

\* Values of ALLOWED_EXTENSIONS: not set; ''; '.jar'; '.jar,.pom';
\* '.jar, .pom'; '.JAR'.
AllowedExtensionsValues ==
    {Undefined, Str(<<>>), Str(ExtJar), Str(ExtJarPom),
     Str(<<".", "j", "a", "r", ",", " ", ".", "p", "o", "m">>),
     Str(<<".", "J", "A", "R">>)}

AuthorizerEnvs ==
    {MkEnv(Str(Token), paths, exts) :
        paths \in AllowedPathsValues, exts \in AllowedExtensionsValues}

\* The paths the authorizers are called with (no leading slash): c/a.jar,
\* o/b.pom, c/a.jarx, o/lib.jar, o/b.JAR, a/b.jar, a/b.jarx and ''.
AuthorizerPaths ==
    {StripLeadingSlash(PathJar), StripLeadingSlash(PathPom), StripLeadingSlash(PathJarx),
     <<"o", "/", "l", "i", "b", ".", "j", "a", "r">>,
     <<"o", "/", "b", ".", "J", "A", "R">>,
     <<"a", "/", "b", ".", "j", "a", "r">>,
     <<"a", "/", "b", ".", "j", "a", "r", "x">>,
     <<>>}

InitAuthorizers ==
    /\ env \in AuthorizerEnvs
    /\ cache = [k \in {} |-> NoResponse]
    /\ pending = {}
    /\ req = [r \in Requests |-> IdleReq]
    /\ resp = [r \in Requests |-> NoResponse]
    /\ upstreamCalls = {}
    /\ stores = {}
    /\ lastStore = [u \in {} |-> 0]
    /\ sinceReply = {}
    /\ probe = NoProbe

\* Lines 119-139 called with (env, path).
CallIsAllowedPath(path) ==
    /\ probe' = [fn |-> "isAllowedPath", path |-> path,
                 result |-> isAllowedPath(env, path)]
    /\ UNCHANGED <<env, cache, pending, req, resp, upstreamCalls, stores, lastStore,
                   sinceReply>>

\* Lines 141-151 called with (env, path).
CallIsAllowedExtension(path) ==
    /\ probe' = [fn |-> "isAllowedExtension", path |-> path,
                 result |-> isAllowedExtension(env, path)]
    /\ UNCHANGED <<env, cache, pending, req, resp, upstreamCalls, stores, lastStore,
                   sinceReply>>

NextAuthorizers ==
    \/ \E path \in AuthorizerPaths : CallIsAllowedPath(path)
    \/ \E path \in AuthorizerPaths : CallIsAllowedExtension(path)

SpecAuthorizers == InitAuthorizers /\ [][NextAuthorizers]_vars

(***************************************************************************)
(* Vocabulary of the properties.                                           *)
(***************************************************************************)
Done(r) == req[r].pc = "done"

\* The handler of r issued the cache lookup (line 53).
LookedUp(r) ==
    \/ req[r].pc \in {"match", "fetch"}
    \/ req[r].via \in {"hit", "no token", "upstream failure", "fresh", "network error"}

\* cache.match has resolved for r.
MatchResolved(r) == LookedUp(r) /\ req[r].pc # "match"

\* r issued an outbound request.
Fetched(r) == \E c \in upstreamCalls : c.by = r

\* The cache.put calls r handed to ctx.waitUntil.
StoresBy(r) == {s \in stores : s.by = r}

SamePath(r1, r2) == req[r1].pathname = req[r2].pathname

\* r2 began after r1 had returned.
After(r1, r2) == r1 \in req[r2].prior

\* The upstream answered r with a non-2xx status.
UpstreamRejected(r) == req[r].reply # NoResponse /\ ~Ok(req[r].reply)

\* cache.match resolved for r2 less than cacheTtl seconds after r1 had returned
\* its upstream answer.
WithinTtl(r1, r2) == MatchResolved(r2) /\ r1 \in req[r2].recent

\* When cache.match resolved for r2, the last store completed for its URL was
\* the one r1 scheduled, and it had completed less than cacheTtl seconds before.
SawEntryOf(r2, r1) ==
    /\ MatchResolved(r2)
    /\ req[r2].sawStore = r1

PreflightHeaders(h) ==
    /\ HeaderIs(h, ACAO, "*")
    /\ HeaderIs(h, ACAM, "GET, OPTIONS")
    /\ HeaderIs(h, ACAH, "Accept, HEAD")

(***************************************************************************)
(* C1.  Every response the handler returns to a HEAD request has an empty  *)
(* body, whatever the path, the cache, the credential and the upstream     *)
(* outcome.  (The code strips the body on a hit and on a fresh 2xx only:   *)
(* the 404s, the 500s and the mirrored upstream failure keep their text.)  *)
(***************************************************************************)
C1_HeadBodyEmpty ==
    \A r \in Requests :
        (Done(r) /\ req[r].method = "HEAD") => resp[r].body = NullBody

(***************************************************************************)
(* C2, as stated.  Two GETs for the same path, the second begun after the  *)
(* first returned and looking up within the TTL of the first, the upstream *)
(* having answered 200 to the first: same status, same body, and the       *)
(* second does not contact the upstream.                                   *)
(***************************************************************************)
C2_Consecutive(r1, r2) ==
    /\ r1 # r2
    /\ req[r1].method = "GET" /\ req[r2].method = "GET"
    /\ SamePath(r1, r2)
    /\ Done(r1) /\ Done(r2)
    /\ req[r1].reply.status = 200
    /\ After(r1, r2)
    /\ WithinTtl(r1, r2)

C2_Same(r1, r2) ==
    /\ resp[r2].status = resp[r1].status
    /\ resp[r2].body = resp[r1].body
    /\ ~Fetched(r2)

C2_ConsecutiveGetsIdentical ==
    \A r1, r2 \in Requests : C2_Consecutive(r1, r2) => C2_Same(r1, r2)

(***************************************************************************)
(* C2, amended.  The same, provided the first request's background store   *)
(* had completed when the second looked the key up, and was still the last *)
(* store completed for that key, less than the TTL old: then the second is *)
(* a cache hit with the same status and body and no upstream contact.      *)
(***************************************************************************)
C2_ConsecutiveGetsIdenticalOnceStored ==
    \A r1, r2 \in Requests :
        (C2_Consecutive(r1, r2) /\ SawEntryOf(r2, r1))
            => (req[r2].via = "hit" /\ C2_Same(r1, r2))

C2_Witness ==
    \E r1, r2 \in Requests :
        /\ C2_Consecutive(r1, r2)
        /\ SawEntryOf(r2, r1)
        /\ resp[r2].body # NullBody

(***************************************************************************)
(* C3, as stated.  After a miss answered non-2xx by the upstream, a        *)
(* failure response with that status is handed to the cache under the      *)
(* path's key, and every later GET/HEAD for the path within the TTL        *)
(* returns that status without contacting the upstream.                    *)
(***************************************************************************)
C3_Later(r1, r2) ==
    /\ r1 # r2
    /\ SamePath(r1, r2)
    /\ Done(r1) /\ UpstreamRejected(r1)
    /\ Done(r2) /\ req[r2].method \in {"GET", "HEAD"}
    /\ After(r1, r2)
    /\ WithinTtl(r1, r2)

C3_FailureScheduled(r) ==
    \E s \in StoresBy(r) :
        /\ s.key = cacheKey(env, req[r].method, req[r].pathname)
        /\ s.response.status = req[r].reply.status

C3_Served(r1, r2) ==
    /\ resp[r2].status = req[r1].reply.status
    /\ ~Fetched(r2)

C3_NegativeCaching ==
    /\ \A r \in Requests : (Done(r) /\ UpstreamRejected(r)) => C3_FailureScheduled(r)
    /\ \A r1, r2 \in Requests : C3_Later(r1, r2) => C3_Served(r1, r2)

(***************************************************************************)
(* C3, amended.  The failure response is handed to the cache under the     *)
(* path's key; once that store has completed, every later GET/HEAD for the *)
(* path that finds it the last store completed for the key, less than the  *)
(* TTL old, returns that status without contacting the upstream.           *)
(***************************************************************************)
C3_NegativeCachingOnceStored ==
    /\ \A r \in Requests : (Done(r) /\ UpstreamRejected(r)) => C3_FailureScheduled(r)
    /\ \A r1, r2 \in Requests :
            (C3_Later(r1, r2) /\ SawEntryOf(r2, r1))
                => (req[r2].via = "hit" /\ C3_Served(r1, r2))

C3_Witness ==
    \E r1, r2 \in Requests :
        /\ C3_Later(r1, r2)
        /\ SawEntryOf(r2, r1)
        /\ resp[r2].status = 503

(***************************************************************************)
(* C4.  The cache key does not depend on the method: a HEAD request that   *)
(* looks its key up while the entry stored by a GET for the same path is   *)
(* the cached one is a hit, and returns that entry's status and headers    *)
(* (those a GET hit returns, and those the storing GET returned) with an   *)
(* empty body.                                                             *)
(***************************************************************************)
C4_HeadAfterGet(g, h) ==
    /\ g # h
    /\ req[g].method = "GET" /\ req[h].method = "HEAD"
    /\ SamePath(g, h)
    /\ SawEntryOf(h, g)

C4_HeadServedFromGetEntry ==
    \A g, h \in Requests :
        C4_HeadAfterGet(g, h) =>
            /\ req[h].via = "hit"
            /\ StoresBy(g) # {}
            /\ \A s \in StoresBy(g) :
                    LET get == ShapeHit("GET", s.response)
                    IN  /\ resp[h].status = get.status
                        /\ resp[h].headers = get.headers
                        /\ resp[h].status = resp[g].status
                        /\ resp[h].headers = resp[g].headers
                        /\ resp[h].body = NullBody
                        /\ get.body # NullBody

C4_Witness ==
    \E g, h \in Requests :
        /\ C4_HeadAfterGet(g, h)
        /\ Done(h)
        /\ resp[h].status = 200

(***************************************************************************)
(* C5, as stated.  Every OPTIONS request, for any path and configuration,  *)
(* returns the fixed preflight header set and performs no cache lookup, no *)
(* cache store and no upstream fetch.                                      *)
(***************************************************************************)
C5_NoInteraction(r) ==
    /\ ~LookedUp(r)
    /\ ~Fetched(r)
    /\ StoresBy(r) = {}

C5_OptionsAlwaysPreflight ==
    \A r \in Requests :
        (req[r].pc # "idle" /\ req[r].method = "OPTIONS") =>
            /\ C5_NoInteraction(r)
            /\ Done(r)
            /\ PreflightHeaders(resp[r].headers)

(***************************************************************************)
(* C5, amended.  Every OPTIONS request performs no cache lookup, no cache  *)
(* store and no upstream fetch; when both authorizers accept its path, its *)
(* response carries the fixed preflight header set (a path either rejects  *)
(* is answered 404 before the method is looked at).                        *)
(***************************************************************************)
C5_Accepted(r) ==
    LET path == StripLeadingSlash(req[r].pathname)
    IN  /\ isAllowedPath(env, path) = "true"
        /\ isAllowedExtension(env, path) = "true"

C5_OptionsPreflightWhenAccepted ==
    \A r \in Requests :
        (req[r].pc # "idle" /\ req[r].method = "OPTIONS") =>
            /\ C5_NoInteraction(r)
            /\ C5_Accepted(r) =>
                    /\ Done(r)
                    /\ PreflightHeaders(resp[r].headers)
                    /\ DOMAIN resp[r].headers = {ACAO, ACAM, ACAH}

C5_Witness ==
    \E r1, r2 \in Requests :
        /\ req[r1].method = "OPTIONS" /\ Done(r1) /\ C5_Accepted(r1)
        /\ req[r2].method = "OPTIONS" /\ Done(r2) /\ ~C5_Accepted(r2)

(***************************************************************************)
(* C6.  Without a bearer credential, every GET/HEAD request whose cache    *)
(* lookup has resolved to a miss has returned 500, has issued no upstream  *)
(* fetch and has scheduled no cache store.                                 *)
(***************************************************************************)
C6_NoCredential == ~env.GITHUB_TOKEN.def \/ env.GITHUB_TOKEN.val = <<>>

C6_NoCredentialFailsFast ==
    C6_NoCredential =>
        \A r \in Requests :
            (MatchResolved(r) /\ req[r].via # "hit") =>
                /\ Done(r)
                /\ resp[r].status = 500
                /\ ~Fetched(r)
                /\ StoresBy(r) = {}

C6_Witness ==
    /\ C6_NoCredential
    /\ \E r \in Requests :
            /\ req[r].method = "HEAD"
            /\ MatchResolved(r)
            /\ resp[r].status = 500

(***************************************************************************)
(* C7.  A step in which the upstream fetch of a request throws returns 500 *)
(* for it and leaves the cache and the scheduled stores as they were; such *)
(* a request never has a store of its own, and a later request for the     *)
(* same path that finds no completed store for the key misses the cache    *)
(* and contacts the upstream again.                                        *)
(***************************************************************************)
C7_FetchThrows(r) == req[r].pc = "fetch" /\ req'[r].via = "network error"

C7_Retried(r1, r2) ==
    /\ req[r1].via = "network error"
    /\ After(r1, r2)
    /\ SamePath(r1, r2)
    /\ MatchResolved(r2)
    /\ req[r2].sawStore = 0

C7_NetworkFailureNotCached ==
    [][ /\ \A r \in Requests :
                C7_FetchThrows(r) =>
                    /\ resp'[r].status = 500
                    /\ cache' = cache
                    /\ pending' = pending
                    /\ stores' = stores
        /\ \A r1, r2 \in Requests :
                /\ req'[r1].via = "network error" => {s \in stores' : s.by = r1} = {}
                /\ C7_Retried(r1, r2)' =>
                        /\ req'[r2].via # "hit"
                        /\ \E c \in upstreamCalls' : c.by = r2 ]_vars

C7_Witness ==
    \E r1, r2 \in Requests :
        /\ C7_Retried(r1, r2)
        /\ Fetched(r2)
        /\ resp[r1].status = 500

(***************************************************************************)
(* C8.  No exception leaves the handler: every invocation that has ended   *)
(* has returned a response.  (A missing extension list and a malformed     *)
(* allow-list pattern throw outside the handler's try block.)              *)
(***************************************************************************)
C8_NoUncaughtException ==
    \A r \in Requests : req[r].pc # "thrown"

(***************************************************************************)
(* C9.  Every response the handler returns, other than the 500             *)
(* internal-error response, carries Access-Control-Allow-Origin: *.        *)
(***************************************************************************)
C9_AllowOriginEverywhere ==
    \A r \in Requests :
        (Done(r) /\ resp[r] # InternalErrorResponse) =>
            HeaderIs(resp[r].headers, ACAO, "*")

C9_Witness ==
    \E r1, r2 \in Requests :
        /\ Done(r1) /\ req[r1].via = "fresh" /\ req[r1].method = "GET"
        /\ Done(r2) /\ req[r2].via = "hit" /\ req[r2].method = "HEAD"
        /\ HeaderIs(resp[r2].headers, ACAO, "*")

(***************************************************************************)
(* C10, as stated.  Once an entry is written for a key, every read of the  *)
(* key within the TTL returns the same body and status: a read in one      *)
(* state and a read in the next, both finding an entry, agree.             *)
(***************************************************************************)
C10_Read(c, k) == CacheMatch(c, k)

C10_ReadsAgree(k) ==
    (C10_Read(cache, k) # NoResponse /\ C10_Read(cache', k) # NoResponse)
        => /\ C10_Read(cache', k).body = C10_Read(cache, k).body
           /\ C10_Read(cache', k).status = C10_Read(cache, k).status

C10_ReadOf(r, s) ==
    /\ resp[r].status = s.response.status
    /\ req[r].method = "GET" => resp[r].body = s.response.body

C11_StoredHeaders(response) ==
    /\ HeaderIs(response.headers, CacheControl, "public, max-age=300")
    /\ HeaderIs(response.headers, ACAO, "*")

C11_StoredEntriesHeaders ==
    /\ \A s \in stores : C11_StoredHeaders(s.response)
    /\ \A k \in DOMAIN cache : C11_StoredHeaders(cache[k])

C11_Witness ==
    /\ \E r \in Requests :
            /\ HeaderIs(req[r].reply.headers, CacheControl, "private, no-store")
            /\ HeaderIs(req[r].reply.headers, ACAO, "https://github.com")
            /\ \E k \in DOMAIN cache : \E s \in StoresBy(r) :
                    cache[k] = s.response /\ cache[k].status = 200
    /\ \E s \in stores : s.response.status = 503

(***************************************************************************)
(* C12.  Every outbound request is a GET, whatever the inbound method.  A  *)
(* HEAD request answered 2xx by the upstream returns an empty body and     *)
(* hands the cache the full upstream body; a GET for the same path that    *)
(* finds that store the one cached for the key is a hit, returns the       *)
(* complete upstream body and does not contact the upstream.               *)
(***************************************************************************)
C12_HeadFetched(h) ==
    /\ req[h].method = "HEAD"
    /\ req[h].via = "fresh"

C12_GetAfterHead(h, g) ==
    /\ h # g
    /\ C12_HeadFetched(h)
    /\ req[g].method = "GET"
    /\ SamePath(h, g)
    /\ SawEntryOf(g, h)

C12_HeadFetchStoresFullBody ==
    /\ \A c \in upstreamCalls : c.request.method = "GET"
    /\ \A h \in Requests :
            C12_HeadFetched(h) =>
                /\ Fetched(h)
                /\ resp[h].body = NullBody
                /\ req[h].reply.body # NullBody
                /\ StoresBy(h) # {}
                /\ \A s \in StoresBy(h) : s.response.body = req[h].reply.body
    /\ \A h, g \in Requests :
            C12_GetAfterHead(h, g) =>
                /\ req[g].via = "hit"
                /\ resp[g].body = req[h].reply.body
                /\ resp[g].status = req[h].reply.status
                /\ ~Fetched(g)

C12_Witness ==
    \E h, g \in Requests :
        /\ C12_GetAfterHead(h, g)
        /\ Done(g)
        /\ resp[g].body # NullBody
        /\ \E c \in upstreamCalls : c.by = h /\ c.request.method = "GET"

(***************************************************************************)
(* Comma-separated lists, as the claims about the authorizers read them:   *)
(* the pieces between consecutive separators, and a piece without the      *)
(* white space around it.                                                  *)
(***************************************************************************)
ListPieces(s) ==
    LET seps == {0, Len(s) + 1} \cup {i \in 1..Len(s) : s[i] = ","}
    IN  {SubSeq(s, i + 1, j - 1) :
            <<i, j>> \in {<<a, b>> \in seps \X seps :
                            a < b /\ \A c \in seps : ~(a < c /\ c < b)}}

WithoutSpaceAround(p) ==
    LET solid == {i \in 1..Len(p) : p[i] # " "}
    IN  IF solid = {} THEN <<>>
        ELSE SubSeq(p, CHOOSE i \in solid : \A j \in solid : i <= j,
                       CHOOSE i \in solid : \A j \in solid : j <= i)

(***************************************************************************)
(* C13, as stated.  isAllowedPath returns true iff no allow-list is        *)
(* configured, or the list is empty after parsing, or the path matches one *)
(* of the comma-separated patterns; and false for every path that matches  *)
(* none, whatever its extension.                                           *)
(***************************************************************************)
C13_Patterns == {WithoutSpaceAround(p) : p \in ListPieces(env.ALLOWED_PATHS.val)}

C13_Allowed(path) ==
    \/ ~env.ALLOWED_PATHS.def
    \/ \A p \in C13_Patterns : p = <<>>
    \/ \E p \in C13_Patterns : RegExpTest(p, path)

C13_Decides ==
    /\ probe.result = "true" <=> C13_Allowed(probe.path)
    /\ probe.result = "false" <=> ~C13_Allowed(probe.path)

C13_PathAllowedIffMatches ==
    probe.fn = "isAllowedPath" => C13_Decides

(***************************************************************************)
(* C13, amended.  The same when every configured pattern compiles; when    *)
(* one does not, isAllowedPath returns neither true nor false: it throws a *)
(* SyntaxError, for every path, matching or not.                           *)
(***************************************************************************)
C13_Compiles ==
    ~env.ALLOWED_PATHS.def \/ \A p \in C13_Patterns : ~RegExpSyntaxError(p)

C13_PathAllowedIffMatchesWhenCompiled ==
    probe.fn = "isAllowedPath" =>
        IF C13_Compiles THEN C13_Decides ELSE probe.result = "SyntaxError"

C13_Witness ==
    /\ probe.fn = "isAllowedPath"
    /\ env.ALLOWED_PATHS = Str(PatCLib)
    /\ env.ALLOWED_EXTENSIONS = Str(ExtJar)
    /\ probe.path = <<"a", "/", "b", ".", "j", "a", "r">>
    /\ probe.result = "false"

(***************************************************************************)
(* C14.  For a configuration that has an extension list,                   *)
(* isAllowedExtension returns true iff the path ends with one of the       *)
(* suffixes obtained by splitting the list on commas (exact,               *)
(* case-sensitive, nothing trimmed), and false for every other path; with  *)
(* '.jar,.pom', a/b.jar is allowed and a/b.jarx is not.                    *)
(***************************************************************************)
C14_Suffixes == ListPieces(env.ALLOWED_EXTENSIONS.val)

C14_HasSuffix(path, suffix) ==
    \E k \in 0..Len(path) : SubSeq(path, k + 1, Len(path)) = suffix

C14_Allowed(path) == \E suffix \in C14_Suffixes : C14_HasSuffix(path, suffix)

C14_Example ==
    env.ALLOWED_EXTENSIONS = Str(ExtJarPom) =>
        /\ probe.path = <<"a", "/", "b", ".", "j", "a", "r">> => probe.result = "true"
        /\ probe.path = <<"a", "/", "b", ".", "j", "a", "r", "x">> => probe.result = "false"

C14_ExtensionAllowedIffSuffix ==
    (probe.fn = "isAllowedExtension" /\ env.ALLOWED_EXTENSIONS.def) =>
        /\ probe.result = "true" <=> C14_Allowed(probe.path)
        /\ probe.result = "false" <=> ~C14_Allowed(probe.path)
        /\ C14_Example

C14_Witness ==
    /\ probe.fn = "isAllowedExtension"
    /\ env.ALLOWED_EXTENSIONS = Str(ExtJarPom)
    /\ probe.path = <<"a", "/", "b", ".", "j", "a", "r", "x">>
    /\ probe.result = "false"

(***************************************************************************)
(* C15.  Validation runs path, then extension, then method.  A request     *)
(* whose path the path authorizer rejects gets the bad-path 404 whatever   *)
(* its extension and method; one whose path the path authorizer accepts    *)
(* and the extension authorizer rejects gets the bad-extension 404         *)
(* whatever its method; and a request gets 405 exactly when both accept    *)
(* its path and its method is none of GET, HEAD, OPTIONS.  (An authorizer  *)
(* rejects when it returns false; the extension authorizer is consulted    *)
(* only after the path authorizer has returned true.)                      *)
(***************************************************************************)
C15_PathVerdict(r) == isAllowedPath(env, StripLeadingSlash(req[r].pathname))

C15_ExtensionVerdict(r) == isAllowedExtension(env, StripLeadingSlash(req[r].pathname))

C15_Ordered(r) ==
    /\ C15_PathVerdict(r) = "false" =>
            /\ Done(r)
            /\ resp[r].status = 404
            /\ resp[r].body = <<"Invalid request (bad path)">>
    /\ (C15_PathVerdict(r) = "true" /\ C15_ExtensionVerdict(r) = "false") =>
            /\ Done(r)
            /\ resp[r].status = 404
            /\ resp[r].body = <<"Invalid request (bad extension)">>
    /\ (Done(r) /\ resp[r].status = 405) <=>
            /\ C15_PathVerdict(r) = "true"
            /\ C15_ExtensionVerdict(r) = "true"
            /\ req[r].method \notin {"GET", "HEAD", "OPTIONS"}

C15_ValidationOrder ==
    \A r \in Requests : req[r].pc # "idle" => C15_Ordered(r)

C15_Witness ==
    \E r1, r2 \in Requests :
        /\ req[r1].method = "OPTIONS"
        /\ C15_PathVerdict(r1) = "false" /\ C15_ExtensionVerdict(r1) = "false"
        /\ resp[r1].status = 404
        /\ req[r2].method = "POST"
        /\ resp[r2].status = 405

(***************************************************************************)
(* C16.  Nothing serialises requests for one key: two concurrent GET/HEAD  *)
(* requests for an uncached path can both miss, both fetch and both store  *)
(* (the state C16_Witness).  A store that completes becomes the entry of   *)
(* its key, whatever the cache held, so the entry in the cache is always   *)
(* the response of the store that completed last for its URL.              *)
(***************************************************************************)
C16_Concurrent(r1, r2) ==
    /\ r1 # r2
    /\ SamePath(r1, r2)
    /\ ~After(r1, r2) /\ ~After(r2, r1)
    /\ req[r1].method \in {"GET", "HEAD"} /\ req[r2].method \in {"GET", "HEAD"}

C16_MissedFetchedStored(r) ==
    /\ MatchResolved(r) /\ req[r].via # "hit"
    /\ Fetched(r)
    /\ StoresBy(r) # {}
    /\ StoresBy(r) \cap pending = {}

C16_EntryIsLastStore ==
    \A k \in DOMAIN cache :
        \E s \in StoresBy(LastStoreOf(k.url)) : s.key = k /\ cache[k] = s.response

C16_LastStoreWins ==
    [][ /\ \A s \in pending :
                s \notin pending' => (s.key \in DOMAIN cache' /\ cache'[s.key] = s.response)
        /\ C16_EntryIsLastStore' ]_vars

C16_Witness ==
    \E r1, r2 \in Requests :
        /\ C16_Concurrent(r1, r2)
        /\ C16_MissedFetchedStored(r1) /\ C16_MissedFetchedStored(r2)
        /\ req[r1].reply.status = 200 /\ req[r2].reply.status = 503
        /\ LastStoreOf(targetUrl(env, req[r1].pathname)) = r2
        /\ \E k \in DOMAIN cache : cache[k].status = 503

(***************************************************************************)
(* C17.  The step in which a request obtains an upstream response (2xx or  *)
(* non-2xx) returns its response and registers exactly one cache store,    *)
(* for its key, with ctx.waitUntil; the store is still pending and the     *)
(* cache untouched when the response is returned.  A store leaves the      *)
(* pending set only by being written to the cache, and under FairSpec no   *)
(* store stays pending for ever: every registered store completes.         *)
(***************************************************************************)
C17_ObtainsReply(r) ==
    /\ req[r].pc = "fetch"
    /\ req'[r].reply # NoResponse

C17_Registered(r) ==
    /\ Done(r)
    /\ Cardinality(StoresBy(r)) = 1
    /\ \A s \in StoresBy(r) :
            /\ s.key = cacheKey(env, req[r].method, req[r].pathname)
            /\ s \in pending

C17_StoreCompleted(r) ==
    /\ StoresBy(r) # {}
    /\ StoresBy(r) \cap pending = {}

C17_NeverDropped ==
    \A s \in pending :
        s \notin pending' => (s.key \in DOMAIN cache' /\ cache'[s.key] = s.response)

C17_StoreRegisteredAndCompletes ==
    /\ [][ /\ \A r \in Requests :
                    C17_ObtainsReply(r) => (C17_Registered(r)' /\ cache' = cache)
            /\ C17_NeverDropped ]_vars
    /\ []<>(pending = {})

C17_Witness ==
    \E r1, r2 \in Requests :
        /\ req[r1].reply.status = 503 /\ C17_StoreCompleted(r1)
        /\ req[r2].reply.status = 200 /\ C17_Registered(r2)

(***************************************************************************)
(* C18.  A step in which the cache lookup of a GET/HEAD request finds an   *)
(* entry returns that entry shaped for the method (the body stripped for   *)
(* HEAD), issues no upstream fetch, schedules no store and leaves the      *)
(* cache as it was, with or without a credential; a request served from    *)
(* the cache never has a fetch or a store of its own.                      *)
(***************************************************************************)
C18_Finds(r) ==
    /\ req[r].pc = "match"
    /\ req'[r].pc # "match"
    /\ CacheMatch(cache, cacheKey(env, req[r].method, req[r].pathname)) # NoResponse

C18_Entry(r) == CacheMatch(cache, cacheKey(env, req[r].method, req[r].pathname))

C18_HitFrame(r) ==
    /\ req'[r].via = "hit"
    /\ resp'[r].status = C18_Entry(r).status
    /\ resp'[r].headers = C18_Entry(r).headers
    /\ resp'[r].body = IF req[r].method = "HEAD" THEN NullBody ELSE C18_Entry(r).body
    /\ cache' = cache
    /\ pending' = pending
    /\ stores' = stores
    /\ upstreamCalls' = upstreamCalls

C18_HitLeavesCacheAlone ==
    [][ /\ \A r \in Requests : C18_Finds(r) => C18_HitFrame(r)
        /\ \A r \in Requests :
                req'[r].via = "hit" =>
                    /\ \A c \in upstreamCalls' : c.by # r
                    /\ \A s \in stores' : s.by # r ]_vars

C18_Witness ==
    /\ C6_NoCredential
    /\ \E r \in Requests :
            /\ req[r].via = "hit"
            /\ req[r].method = "HEAD"
            /\ resp[r].body = NullBody
            /\ C18_Entry(r).body # NullBody

(***************************************************************************)
(* C19.  A request that validation turns away (its path rejected by an     *)
(* authorizer: 404; its method none of GET, HEAD, OPTIONS: 405) ends in    *)
(* the step that receives it, with no cache lookup, no cache store and no  *)
(* upstream fetch: the cache, the stores handed to ctx.waitUntil and the   *)
(* upstream calls are after the step what they were before it.             *)
(***************************************************************************)
C19_TurnedAway(method, pathname) ==
    LET path == StripLeadingSlash(pathname)
    IN  \/ isAllowedPath(env, path) = "false"
        \/ isAllowedPath(env, path) = "true" /\ isAllowedExtension(env, path) = "false"
        \/ /\ isAllowedPath(env, path) = "true"
           /\ isAllowedExtension(env, path) = "true"
           /\ method \notin {"GET", "HEAD", "OPTIONS"}

C19_NoInteraction(r) ==
    /\ Done(r)
    /\ resp[r].status \in {404, 405}
    /\ ~LookedUp(r)
    /\ ~Fetched(r)
    /\ StoresBy(r) = {}

C19_Received(r) == req[r].pc = "idle" /\ req'[r].pc # "idle"

C19_RejectionTouchesNothing ==
    [][\A r \in Requests :
        /\ (req'[r].pc # "idle" /\ C19_TurnedAway(req'[r].method, req'[r].pathname))
                => C19_NoInteraction(r)'
        /\ (C19_Received(r) /\ C19_TurnedAway(req'[r].method, req'[r].pathname)) =>
                /\ cache' = cache
                /\ pending' = pending
                /\ stores' = stores
                /\ upstreamCalls' = upstreamCalls ]_vars

C19_Witness ==
    /\ DOMAIN cache # {}
    /\ \E r1, r2 \in Requests :
        /\ C19_TurnedAway(req[r1].method, req[r1].pathname)
        /\ req[r1].pc # "idle" /\ resp[r1].status = 404
        /\ C19_TurnedAway(req[r2].method, req[r2].pathname)
        /\ req[r2].pc # "idle" /\ resp[r2].status = 405

(***************************************************************************)
(* C20.  From an empty cache and with a fixed configuration, every         *)
(* response handed to the cache and every entry in the cache is keyed by   *)
(* the GET of the target URL of a path both authorizers accept, and has a  *)
(* status the upstream returned to an authenticated GET of that URL; the   *)
(* pipeline's own 404, 405, OPTIONS and 500 responses are never stored.    *)
(***************************************************************************)
C20_AcceptedKey(k) ==
    /\ k.method = "GET"
    /\ \E pathname \in Pathnames :
            /\ k.url = targetUrl(env, pathname)
            /\ isAllowedPath(env, StripLeadingSlash(pathname)) = "true"
            /\ isAllowedExtension(env, StripLeadingSlash(pathname)) = "true"

C20_Authenticated(c) ==
    /\ c.request.method = "GET"
    /\ "Authorization" \in DOMAIN c.request.headers
    /\ c.request.headers["Authorization"] = "Bearer " \o Join(env.GITHUB_TOKEN.val)
    /\ Truthy(env.GITHUB_TOKEN)

C20_UpstreamReturned(k, response) ==
    \E r \in Requests :
        /\ req[r].reply # NoResponse
        /\ req[r].reply.status = response.status
        /\ \E c \in upstreamCalls :
                c.by = r /\ c.request.url = k.url /\ C20_Authenticated(c)

C20_OwnResponses ==
    {BadPathResponse, BadExtensionResponse, OptionsResponse, MethodNotAllowedResponse,
     InternalErrorResponse}

C20_Storable(k, response) ==
    /\ C20_AcceptedKey(k)
    /\ C20_UpstreamReturned(k, response)
    /\ response \notin C20_OwnResponses
    /\ stripBody(response) \notin {stripBody(own) : own \in C20_OwnResponses}

C20_CacheHoldsUpstreamAnswers ==
    /\ \A s \in stores : C20_Storable(s.key, s.response)
    /\ \A k \in DOMAIN cache : C20_Storable(k, cache[k])

C20_Witness ==
    /\ env.ALLOWED_PATHS.def
    /\ \E k \in DOMAIN cache : cache[k].status = 503
    /\ \E r \in Requests : Done(r) /\ resp[r] = BadExtensionResponse

====
